---- MODULE Spec2Model ----
(***************************************************************************)
(* The reconciliation pass of the OneAgent operator (pkg/stub/handler.go): *)
(* Handler.Handle and the functions it calls, as a state machine.  One     *)
(* pass is sequential; the control plane, the secret store and the version *)
(* authority answer each call with one of the results they can give.       *)
(***************************************************************************)
EXTENDS Integers, Sequences, FiniteSets, TLC

(***************************************************************************)
(* Bounds of the model.                                                    *)
(***************************************************************************)
MaxPasses == 3
MaxTicks == 6600
MaxEnv == 2

(***************************************************************************)
(* Program constants.                                                      *)
(***************************************************************************)
splayTimeSeconds == 10
\* WaitReadySeconds and the loop counter splay are uint16
Uint16 == 65536

TOKEN == "ONEAGENT_INSTALLER_TOKEN"
OneAgentName == "oneagent"

(***************************************************************************)
(* Go values.  A slice or a map is nil or holds elements; reflect.DeepEqual *)
(* tells a nil one from an empty one.                                      *)
(***************************************************************************)
NilV == [nil |-> TRUE, v |-> <<>>]
Val(x) == [nil |-> FALSE, v |-> x]

Nodes == {"n1", "n2"}
\* the order in which the control plane lists the pods of the nodes
NodeOrder == <<"n1", "n2">>
Versions == {"", "1.1.0", "1.2.0"}
AgentVersions == {"1.1.0", "1.2.0"}
Budgets == {0, 15}

EnvVar(name, from) == [Name |-> name, ValueFrom |-> from]
TokenVar == EnvVar(TOKEN, "paasToken")

PodName(n, g) == <<n, g>>
Pod(n, g) == [Name |-> PodName(n, g), NodeName |-> n]

Range(s) == {s[i] : i \in DOMAIN s}

(***************************************************************************)
(* getLabels                                                               *)
(***************************************************************************)
getLabels(cr) == [dynatrace |-> "oneagent", oneagent |-> cr.Name]

(***************************************************************************)
(* The credential injection of Handle: the result list and whether         *)
(* updateStatus is set.  Env[0] of an empty list is an index out of range. *)
(***************************************************************************)
\* a variant that adds the entry at the end of the list
InjectAppend(env) ==
    IF env[1].Name # TOKEN
    THEN [Env |-> env \o <<TokenVar>>, updated |-> TRUE]
    ELSE [Env |-> env, updated |-> FALSE]

InjectToken(env) ==
    IF env[1].Name # TOKEN
    THEN [Env |-> <<TokenVar>> \o env, updated |-> TRUE]
    ELSE [Env |-> env, updated |-> FALSE]

(***************************************************************************)
(* copyDaemonSetSpecToOneAgentSpec: a nil field of the DaemonSet leaves    *)
(* the OneAgentSpec's field as it is; the image is always copied.          *)
(***************************************************************************)
copyDaemonSetSpecToOneAgentSpec(ds, cr) ==
    [cr EXCEPT
        !.NodeSelector = IF ~ds.NodeSelector.nil THEN ds.NodeSelector ELSE @,
        !.Tolerations = IF ~ds.Tolerations.nil THEN ds.Tolerations ELSE @,
        !.Image = ds.Image,
        !.Args = IF ~ds.Args.nil THEN ds.Args ELSE @,
        !.Env = IF ~ds.Env.nil THEN ds.Env ELSE @]

(***************************************************************************)
(* hasSpecChanged                                                          *)
(***************************************************************************)
hasSpecChanged(dsSpec, cr) ==
    LET actualSpec == copyDaemonSetSpecToOneAgentSpec(dsSpec, cr.Spec)
    IN  cr.Spec # actualSpec

(***************************************************************************)
(* applyOneAgentSettings and applyOneAgentDefaults                         *)
(***************************************************************************)
\* a variant that also sets the owner reference again
applyOneAgentSettingsAndOwner(ds, cr) ==
    [ds EXCEPT
        !.Labels = getLabels(cr),
        !.Selector = getLabels(cr),
        !.TemplateLabels = getLabels(cr),
        !.NodeSelector = cr.Spec.NodeSelector,
        !.Tolerations = cr.Spec.Tolerations,
        !.Image = cr.Spec.Image,
        !.Env = cr.Spec.Env,
        !.Args = cr.Spec.Args,
        !.OwnerReferences = Append(@, cr.Name)]

applyOneAgentSettings(ds, cr) ==
    [ds EXCEPT
        !.Labels = getLabels(cr),
        !.Selector = getLabels(cr),
        !.TemplateLabels = getLabels(cr),
        !.NodeSelector = cr.Spec.NodeSelector,
        !.Tolerations = cr.Spec.Tolerations,
        !.Image = cr.Spec.Image,
        !.Env = cr.Spec.Env,
        !.Args = cr.Spec.Args]

\* getDaemonSet: a basic DaemonSet object without a DaemonSetSpec
getDaemonSet(cr) ==
    [Name |-> cr.Name, Labels |-> "none", Selector |-> "none",
     TemplateLabels |-> "none", NodeSelector |-> NilV, Tolerations |-> NilV,
     Image |-> "", Env |-> NilV, Args |-> NilV,
     Structural |-> "none", OwnerReferences |-> <<>>]

applyOneAgentDefaults(ds, cr) ==
    [ds EXCEPT
        !.Structural = "defaults",
        !.OwnerReferences = Append(@, cr.Name)]

(***************************************************************************)
(* getPodsToRestart over the listed pods; answers[n] is what               *)
(* dtc.GetVersionForIp gives for the host of node n: an error, or a        *)
(* version.                                                                *)
(***************************************************************************)
\* a variant without the fallback to the last known version
itemVersionNoFallback(a, items, node) ==
    IF a.err THEN "" ELSE a.ver

\* the version put in the instance record of the pod on node (lines 429-438)
itemVersion(a, items, node) ==
    IF a.err
    THEN IF node \in DOMAIN items.v THEN items.v[node].Version ELSE ""
    ELSE a.ver

\* a variant that leaves out an instance whose resolved version is empty
isDoomedNonEmpty(a, target) ==
    ~a.err /\ a.ver # "" /\ a.ver # target

\* a variant that puts no pod in doomedPods
isDoomedNever(a, target) ==
    FALSE

\* whether the pod is put in doomedPods (lines 430, 436-442)
isDoomed(a, target) ==
    ~a.err /\ a.ver # target

RECURSIVE podsLoop(_, _, _, _, _)
podsLoop(pods, answers, oneagent, doomedPods, instances) ==
    IF pods = <<>> THEN [doomedPods |-> doomedPods, instances |-> instances]
    ELSE
      LET pod == Head(pods)
          a == answers[pod.NodeName]
          item == [PodName |-> pod.Name,
                   Version |-> itemVersion(a, oneagent.Status.Items, pod.NodeName)]
          doomed == IF isDoomed(a, oneagent.Status.Version)
                    THEN Append(doomedPods, pod) ELSE doomedPods
          rest == [n \in DOMAIN instances \ {pod.NodeName} |-> instances[n]]
      IN  podsLoop(Tail(pods), answers, oneagent, doomed,
                   rest @@ (pod.NodeName :> item))

\* a variant that fills the instance map of the status instead of a new one
getPodsToRestartKeepOld(pods, answers, oneagent) ==
    podsLoop(pods, answers, oneagent, <<>>, oneagent.Status.Items.v)

getPodsToRestart(pods, answers, oneagent) ==
    podsLoop(pods, answers, oneagent, <<>>, <<>>)

(***************************************************************************)
(* State.                                                                  *)
(*   cr          the OneAgent resource as the control plane stores it      *)
(*   daemonset   the live DaemonSet (exists = FALSE: not found)            *)
(*   pods        per node, whether an agent pod lives there and the        *)
(*               number of the last pod created there (its name)           *)
(*   agentVer    per node, the version the authority knows for its host    *)
(*   latest      the version the authority recommends                      *)
(*   pc          the position of Handle; oneagent, updateStatus,           *)
(*               podsToDelete, idx, splay, status are its variables        *)
(*   result      what Handle returned                                      *)
(*   passes      passes started so far                                     *)
(*   h           what the current pass did and saw (history): old, the    *)
(*               resource as stored when the pass began; the calls made    *)
(*               (ticks: the rounds of the poll loop being run); the pods  *)
(*               listed and the authority's answers for their hosts;       *)
(*               error, the step whose error Handle returned; recovered,   *)
(*               a poll loop confirmed after a tick that left an error     *)
(***************************************************************************)
VARIABLES cr, daemonset, pods, agentVer, latest,
          pc, oneagent, updateStatus, podsToDelete, idx, splay, status,
          result, passes, h

vars == <<cr, daemonset, pods, agentVer, latest,
          pc, oneagent, updateStatus, podsToDelete, idx, splay, status,
          result, passes, h>>

cluster == <<cr, daemonset, pods, agentVer, latest>>
locals == <<oneagent, updateStatus, podsToDelete, idx, splay, status>>

NoAnswers == [n \in Nodes |-> [err |-> FALSE, ver |-> ""]]

NoHistory(o) ==
    [old |-> o, create |-> 0, update |-> 0, delete |-> 0, statusWrite |-> 0,
     ticks |-> 0, confirmed |-> 0, timedOut |-> FALSE,
     latestFailed |-> FALSE, listed |-> FALSE, quiet |-> FALSE,
     answers |-> NoAnswers, listedPods |-> <<>>,
     error |-> "none", recovered |-> FALSE]

\* the pods a list with the label selector of the fleet returns
RECURSIVE livePods(_)
livePods(order) ==
    IF order = <<>> THEN <<>>
    ELSE IF pods[Head(order)].alive
         THEN <<Pod(Head(order), pods[Head(order)].gen)>> \o livePods(Tail(order))
         ELSE livePods(Tail(order))

\* the fleet specs a user writes: with and without the tokens default, with
\* the credential entry missing, already first, and with no environment at all
\* (WaitReadySeconds is a *uint16: the model takes it as set)
UserSpec(tokens, env, wait) ==
    [Tokens |-> tokens, Env |-> env, Image |-> "img1", Args |-> NilV,
     NodeSelector |-> NilV, Tolerations |-> NilV, WaitReadySeconds |-> wait]

UserSpecs ==
    {UserSpec("", Val(<<EnvVar("A", "")>>), 15),
     UserSpec("secret", Val(<<EnvVar(TOKEN, ""), EnvVar("A", "")>>), 0),
     UserSpec("secret", NilV, 0), UserSpec("secret", Val(<<>>), 0)}

EmptyStatus == [Version |-> "", Items |-> NilV]

Init ==
    /\ cr \in [Name : {OneAgentName}, Spec : UserSpecs, Status : {EmptyStatus}]
    /\ daemonset = [exists |-> FALSE, obj |-> getDaemonSet(cr)]
    /\ pods = [n \in Nodes |-> [alive |-> FALSE, gen |-> 0]]
    /\ agentVer = [n \in Nodes |-> ""]
    /\ latest \in {"", "1.2.0"}
    /\ pc = "idle"
    /\ oneagent = cr
    /\ updateStatus = FALSE
    /\ podsToDelete = <<>>
    /\ idx = 1
    /\ splay = 0
    /\ status = "nil"
    /\ result = "none"
    /\ passes = 0
    /\ h = NoHistory(cr)

(***************************************************************************)
(* The controlled fields of the live DaemonSet against the fleet spec.     *)
(***************************************************************************)
ControlledDiffer(ds, spec) ==
    \/ ds.NodeSelector # spec.NodeSelector
    \/ ds.Tolerations # spec.Tolerations
    \/ ds.Image # spec.Image
    \/ ds.Env # spec.Env
    \/ ds.Args # spec.Args

\* no drift and nothing stale: what a pass starting from here finds
Quiet(oa) ==
    /\ daemonset.exists
    /\ ~ControlledDiffer(daemonset.obj, oa.Spec)
    /\ oa.Spec.Tokens # ""
    /\ oa.Spec.Env.v # <<>>
    /\ oa.Spec.Env.v[1].Name = TOKEN
    /\ oa.Status.Version = latest
    /\ DOMAIN oa.Status.Items.v = {n \in Nodes : pods[n].alive}
    /\ \A n \in Nodes : pods[n].alive =>
          /\ agentVer[n] = oa.Status.Version
          /\ oa.Status.Items.v[n] =
                [PodName |-> PodName(n, pods[n].gen), Version |-> agentVer[n]]

Between == pc = "idle"

(***************************************************************************)
(* Handle, lines 35-48: the event arrives with the stored resource decoded.*)
(* A stored empty instance map decodes as an empty or as a nil map.        *)
(***************************************************************************)
Receive(deleted) ==
    /\ Between
    /\ \E items \in (IF cr.Status.Items = Val(<<>>) THEN {NilV, Val(<<>>)}
                     ELSE {cr.Status.Items}) :
         LET o == [cr EXCEPT !.Status.Items = items] IN
         /\ oneagent' = o
         /\ pc' = IF deleted THEN "gone" ELSE "tokens"
         /\ result' = IF deleted THEN "nil" ELSE "none"
         /\ h' = [NoHistory(cr) EXCEPT !.quiet = ~deleted /\ Quiet(o)]
    /\ updateStatus' = FALSE
    /\ podsToDelete' = <<>>
    /\ idx' = 1
    /\ splay' = 0
    /\ status' = "nil"
    /\ UNCHANGED cluster

HandleEvent ==
    /\ passes < MaxPasses
    /\ \E deleted \in BOOLEAN : Receive(deleted)
    /\ passes' = passes + 1

(***************************************************************************)
(* Handle, lines 50-66: the tokens default and the two secret lookups.     *)
(***************************************************************************)
GetSecrets ==
    /\ pc = "tokens"
    /\ \E secret \in {"ok", "noPaasToken", "noApiToken"} :
         /\ oneagent' = IF oneagent.Spec.Tokens = ""
                        THEN [oneagent EXCEPT !.Spec.Tokens = oneagent.Name]
                        ELSE oneagent
         /\ updateStatus' = (oneagent.Spec.Tokens = "")
         /\ pc' = IF secret = "ok" THEN "inject" ELSE "done"
         /\ result' = IF secret = "ok" THEN "none" ELSE "err"
         /\ h' = [h EXCEPT !.error = IF secret = "ok" THEN "none" ELSE "secret"]
    /\ UNCHANGED <<cluster, podsToDelete, idx, splay, status, passes>>

(***************************************************************************)
(* Handle, lines 68-78: the credential entry is put first.  Env[0] of a    *)
(* list without elements is an index out of range: the pass panics.        *)
(***************************************************************************)
InjectCredential ==
    /\ pc = "inject"
    /\ IF oneagent.Spec.Env.v = <<>>
       THEN /\ pc' = "panic"
            /\ UNCHANGED <<oneagent, updateStatus>>
       ELSE LET r == InjectToken(oneagent.Spec.Env.v) IN
            /\ oneagent' = [oneagent EXCEPT !.Spec.Env = Val(r.Env)]
            /\ updateStatus' = (updateStatus \/ r.updated)
            /\ pc' = "upsert"
    /\ UNCHANGED <<cluster, podsToDelete, idx, splay, status, result, passes, h>>

(***************************************************************************)
(* upsertDaemonSet on the live DaemonSet; get is the result of query.Get   *)
(* and write that of action.Update or action.Create.  Gives the DaemonSet  *)
(* afterwards, the error returned and the writes attempted.                *)
(***************************************************************************)
\* a variant that does not return the error of a failed create or update
upsertDaemonSetSwallow(oa, live, get, write) ==
    LET ds == getDaemonSet(oa) IN
    IF get = "error"
    THEN [ds |-> live, err |-> TRUE, create |-> 0, update |-> 0]
    ELSE IF live.exists
    THEN IF hasSpecChanged(live.obj, oa)
         THEN [ds |-> IF write = "ok"
                      THEN [live EXCEPT !.obj = applyOneAgentSettings(live.obj, oa)]
                      ELSE live,
               err |-> FALSE, create |-> 0, update |-> 1]
         ELSE [ds |-> live, err |-> FALSE, create |-> 0, update |-> 0]
    ELSE LET new == applyOneAgentSettings(applyOneAgentDefaults(ds, oa), oa)
         IN  [ds |-> IF write = "ok" THEN [exists |-> TRUE, obj |-> new] ELSE live,
              err |-> FALSE, create |-> 1, update |-> 0]

upsertDaemonSet(oa, live, get, write) ==
    LET ds == getDaemonSet(oa) IN
    IF get = "error"
    THEN [ds |-> live, err |-> TRUE, create |-> 0, update |-> 0]
    ELSE IF live.exists
    THEN IF hasSpecChanged(live.obj, oa)
         THEN [ds |-> IF write = "ok"
                      THEN [live EXCEPT !.obj = applyOneAgentSettings(live.obj, oa)]
                      ELSE live,
               err |-> write # "ok", create |-> 0, update |-> 1]
         ELSE [ds |-> live, err |-> FALSE, create |-> 0, update |-> 0]
    ELSE LET desiredState == oa
             new == applyOneAgentSettings(applyOneAgentDefaults(ds, desiredState),
                                          desiredState)
         IN  [ds |-> IF write = "ok" THEN [exists |-> TRUE, obj |-> new] ELSE live,
              err |-> write # "ok", create |-> 1, update |-> 0]

\* Handle, lines 80-85
UpsertDaemonSet ==
    /\ pc = "upsert"
    /\ \E get \in {"ok", "error"}, write \in {"ok", "error"} :
         LET r == upsertDaemonSet(oneagent, daemonset, get, write) IN
         /\ daemonset' = r.ds
         /\ h' = [h EXCEPT !.create = @ + r.create, !.update = @ + r.update,
                           !.error = IF r.err THEN "upsert" ELSE "none"]
         /\ pc' = IF r.err THEN "done" ELSE "version"
         /\ result' = IF r.err THEN "err" ELSE "none"
    /\ UNCHANGED <<cr, pods, agentVer, latest, locals, passes>>

(***************************************************************************)
(* Handle, lines 87-105: the client and the recommended version.  out is   *)
(* what NewClient and GetVersionForLatest give, desired the version.       *)
(* Gives where Handle goes on, what it returns and its variables.          *)
(***************************************************************************)
\* a variant that goes on with the last known target when the query fails
desiredVersionProceed(oa, upd, out, desired) ==
    IF out = "clientErr"
    THEN [pc |-> "done", result |-> "err", oneagent |-> oa, updateStatus |-> upd]
    ELSE IF out = "ok" /\ desired # "" /\ oa.Status.Version # desired
    THEN [pc |-> "list", result |-> "none",
          oneagent |-> [oa EXCEPT !.Status.Version = desired], updateStatus |-> TRUE]
    ELSE [pc |-> "list", result |-> "none", oneagent |-> oa, updateStatus |-> upd]

\* a variant that returns the error of a failed query
desiredVersionReturnErr(oa, upd, out, desired) ==
    IF out \in {"clientErr", "queryErr"}
    THEN [pc |-> "done", result |-> "err", oneagent |-> oa, updateStatus |-> upd]
    ELSE IF desired # "" /\ oa.Status.Version # desired
    THEN [pc |-> "list", result |-> "none",
          oneagent |-> [oa EXCEPT !.Status.Version = desired], updateStatus |-> TRUE]
    ELSE [pc |-> "list", result |-> "none", oneagent |-> oa, updateStatus |-> upd]

\* a variant that takes over an empty answer as well
desiredVersionAcceptEmpty(oa, upd, out, desired) ==
    IF out = "clientErr"
    THEN [pc |-> "done", result |-> "err", oneagent |-> oa, updateStatus |-> upd]
    ELSE IF out = "queryErr"
    THEN [pc |-> "done", result |-> "nil", oneagent |-> oa, updateStatus |-> upd]
    ELSE IF oa.Status.Version # desired
    THEN [pc |-> "list", result |-> "none",
          oneagent |-> [oa EXCEPT !.Status.Version = desired], updateStatus |-> TRUE]
    ELSE [pc |-> "list", result |-> "none", oneagent |-> oa, updateStatus |-> upd]

desiredVersion(oa, upd, out, desired) ==
    IF out = "clientErr"
    THEN [pc |-> "done", result |-> "err", oneagent |-> oa, updateStatus |-> upd]
    ELSE IF out = "queryErr"
    THEN [pc |-> "done", result |-> "nil", oneagent |-> oa, updateStatus |-> upd]
    ELSE IF desired # "" /\ oa.Status.Version # desired
    THEN [pc |-> "list", result |-> "none",
          oneagent |-> [oa EXCEPT !.Status.Version = desired], updateStatus |-> TRUE]
    ELSE [pc |-> "list", result |-> "none", oneagent |-> oa, updateStatus |-> upd]

GetDesiredVersion ==
    /\ pc = "version"
    /\ \E out \in {"ok", "clientErr", "queryErr"} :
         LET r == desiredVersion(oneagent, updateStatus, out, latest) IN
         /\ pc' = r.pc
         /\ result' = r.result
         /\ oneagent' = r.oneagent
         /\ updateStatus' = r.updateStatus
         /\ h' = [h EXCEPT !.latestFailed = (out = "queryErr"),
                           !.error = IF out = "clientErr" THEN "client" ELSE "none"]
    /\ UNCHANGED <<cluster, podsToDelete, idx, splay, status, passes>>

(***************************************************************************)
(* Handle, lines 107-123: the pods are listed, getPodsToRestart looks up   *)
(* each one's version (the lookups of the nodes in errs fail) and the new  *)
(* instance map is compared with the one in the status.                    *)
(***************************************************************************)
ListPods ==
    /\ pc = "list"
    /\ \E list \in {"ok", "error"} :
       \E errs \in SUBSET {n \in Nodes : pods[n].alive} :
         IF list = "error"
         THEN /\ errs = {}
              /\ pc' = "done"
              /\ result' = "err"
              /\ h' = [h EXCEPT !.error = "list"]
              /\ UNCHANGED <<oneagent, updateStatus, podsToDelete>>
         ELSE LET podList == livePods(NodeOrder)
                  answers == [n \in Nodes |->
                                [err |-> n \in errs,
                                 ver |-> IF n \in errs \/ ~pods[n].alive
                                         THEN "" ELSE agentVer[n]]]
                  r == getPodsToRestart(podList, answers, oneagent)
                  instances == Val(r.instances)
              IN  /\ oneagent' = IF instances # oneagent.Status.Items
                                 THEN [oneagent EXCEPT !.Status.Items = instances]
                                 ELSE oneagent
                  /\ updateStatus' = (updateStatus \/ instances # oneagent.Status.Items)
                  /\ podsToDelete' = r.doomedPods
                  /\ pc' = IF r.doomedPods = <<>> THEN "status" ELSE "delete"
                  /\ result' = "none"
                  /\ h' = [h EXCEPT !.listed = TRUE, !.answers = answers,
                                    !.listedPods = podList]
    /\ idx' = 1
    /\ UNCHANGED <<cluster, splay, status, passes>>

(***************************************************************************)
(* deletePods, lines 162-199.                                              *)
(***************************************************************************)
PollOutcomes == {"error", "zero", "oneNotReady", "oneReady", "many"}

\* what query.List and the branch on its result leave in status (lines 181-190)
tickStatus(o) ==
    IF o = "error" THEN "queryErr"
    ELSE IF o = "many" THEN "tooMany"
    ELSE "nil"

\* a variant that goes on to the status update when the wait failed
afterLoopToStatus(st) ==
    IF st # "nil"
    THEN [pc |-> "status", result |-> "none", idx |-> idx, error |-> "wait"]
    ELSE [pc |-> IF idx + 1 > Len(podsToDelete) THEN "status" ELSE "delete",
          result |-> "none", idx |-> idx + 1, error |-> "none"]

\* lines 192-196 and the next round of the range loop: with st the status
\* after the poll loop, deletePods returns st or goes on to the next pod
afterLoop(st) ==
    IF st # "nil"
    THEN [pc |-> "done", result |-> "err", idx |-> idx, error |-> "wait"]
    ELSE [pc |-> IF idx + 1 > Len(podsToDelete) THEN "status" ELSE "delete",
          result |-> "none", idx |-> idx + 1, error |-> "none"]

\* a variant that goes on to the poll loop when the delete failed
afterDeleteGoOn(del, wait) ==
    LET e == IF del = "error" THEN "delete" ELSE "none" IN
    IF 0 < wait
    THEN [pc |-> "poll", result |-> "none", idx |-> idx, error |-> e]
    ELSE [afterLoop("nil") EXCEPT !.error = e]

\* lines 166-178: with del the result of action.Delete, deletePods returns
\* the error, enters the poll loop, or (no budget) passes the loop by
afterDelete(del, wait) ==
    IF del = "error"
    THEN [pc |-> "done", result |-> "err", idx |-> idx, error |-> "delete"]
    ELSE IF 0 < wait
    THEN [pc |-> "poll", result |-> "none", idx |-> idx, error |-> "none"]
    ELSE afterLoop("nil")

\* lines 163-178: the pod is deleted and the poll loop entered
DeletePod ==
    /\ pc = "delete"
    /\ LET pod == podsToDelete[idx]
           wait == oneagent.Spec.WaitReadySeconds
       IN \E del \in {"ok", "error"} :
          LET r == afterDelete(del, wait) IN
          /\ pods' = IF del = "ok"
                     THEN [pods EXCEPT ![pod.NodeName].alive = FALSE]
                     ELSE pods
          /\ h' = [h EXCEPT !.delete = @ + 1, !.error = r.error]
          /\ splay' = 0
          /\ status' = "nil"
          /\ pc' = r.pc
          /\ result' = r.result
          /\ idx' = r.idx
    /\ UNCHANGED <<cr, daemonset, agentVer, latest, oneagent, updateStatus,
                   podsToDelete, passes>>

\* a variant in which a tick whose query failed or found too many pods ends
\* the loop
pollStepStopOnError(o, next, wait) ==
    IF o = "oneReady" THEN "break"
    ELSE IF o \in {"error", "many"} THEN "exit"
    ELSE IF next < wait THEN "continue"
    ELSE "exit"

\* lines 178-190: what one round of the poll loop ends with, o being what the
\* query found and next the counter after splay += splayTimeSeconds
pollStep(o, next, wait) ==
    IF o = "oneReady" THEN "break"
    ELSE IF next < wait THEN "continue"
    ELSE "exit"

\* lines 178-191: one round of the poll loop.  A poll that finds pods on the
\* node finds the replacement the DaemonSet controller made, whose agent
\* installs version v.  splay and status go out of scope when the loop is
\* left: they are set back then.
PollTick ==
    /\ pc = "poll"
    /\ h.ticks < MaxTicks
    /\ LET pod == podsToDelete[idx]
           n == pod.NodeName
           wait == oneagent.Spec.WaitReadySeconds
           next == (splay + splayTimeSeconds) % Uint16
       IN \E o \in PollOutcomes :
          \E v \in (IF o \in {"error", "zero"} \/ pods[n].alive
                    THEN {agentVer[n]} ELSE AgentVersions) :
            LET step == pollStep(o, next, wait)
                r == afterLoop(IF step = "break" THEN "nil" ELSE tickStatus(o))
            IN
            /\ pods' = IF o \in {"error", "zero"} \/ pods[n].alive THEN pods
                       ELSE [pods EXCEPT ![n] = [alive |-> TRUE, gen |-> @.gen + 1]]
            /\ agentVer' = [agentVer EXCEPT ![n] = v]
            /\ IF step = "continue"
               THEN /\ h' = [h EXCEPT !.ticks = @ + 1]
                    /\ status' = tickStatus(o)
                    /\ splay' = next
                    /\ UNCHANGED <<pc, result, idx>>
               ELSE /\ h' = [h EXCEPT
                               !.ticks = 0,
                               !.confirmed = IF step = "break" THEN @ + 1 ELSE @,
                               !.timedOut = IF step = "exit" THEN TRUE ELSE @,
                               !.recovered = IF step = "break" /\ status # "nil"
                                             THEN TRUE ELSE @,
                               !.error = r.error]
                    /\ status' = "nil"
                    /\ splay' = 0
                    /\ pc' = r.pc
                    /\ result' = r.result
                    /\ idx' = r.idx
    /\ UNCHANGED <<cr, daemonset, latest, oneagent, updateStatus, podsToDelete,
                   passes>>

(***************************************************************************)
(* Handle, lines 132-144: the resource is written when updateStatus is set.*)
(***************************************************************************)
UpdateStatus ==
    /\ pc = "status"
    /\ \E write \in {"ok", "error"} :
         IF updateStatus
         THEN /\ h' = [h EXCEPT !.statusWrite = @ + 1,
                                !.error = IF write = "ok" THEN @ ELSE "status"]
              /\ cr' = IF write = "ok"
                       THEN oneagent
                       ELSE cr
              /\ result' = IF write = "ok" THEN "nil" ELSE "err"
         ELSE /\ write = "ok"
              /\ result' = "nil"
              /\ UNCHANGED <<cr, h>>
    /\ pc' = "done"
    /\ UNCHANGED <<daemonset, pods, agentVer, latest, locals, passes>>

(***************************************************************************)
(* The environment between two passes.                                     *)
(***************************************************************************)
\* the DaemonSet controller starts a pod on a node that has none; the
\* authority then knows version v for the host
Schedule(n) ==
    /\ Between
    /\ daemonset.exists
    /\ ~pods[n].alive
    /\ \E v \in Versions :
         /\ pods' = [pods EXCEPT ![n] = [alive |-> TRUE, gen |-> @.gen + 1]]
         /\ agentVer' = [agentVer EXCEPT ![n] = v]
    /\ UNCHANGED <<cr, daemonset, latest, pc, locals, result, passes, h>>

\* the user edits the spec of a deployed fleet: another image, or arguments
\* where none were
EditSpec ==
    /\ Between
    /\ daemonset.exists
    /\ cr.Spec.Image = "img1"
    /\ cr.Spec.Args = NilV
    /\ \E spec \in {[cr.Spec EXCEPT !.Image = "img2"],
                    [cr.Spec EXCEPT !.Args = Val(<<"a">>)]} :
         cr' = [cr EXCEPT !.Spec = spec]
    /\ UNCHANGED <<daemonset, pods, agentVer, latest, pc, locals, result, passes, h>>

\* Handle has returned: the operator waits for the next event
Return ==
    /\ pc = "done"
    /\ pc' = "idle"
    /\ oneagent' = cr
    /\ updateStatus' = FALSE
    /\ podsToDelete' = <<>>
    /\ idx' = 1
    /\ splay' = 0
    /\ status' = "nil"
    /\ result' = "none"
    /\ h' = NoHistory(cr)
    /\ UNCHANGED <<cluster, passes>>

Next ==
    \/ HandleEvent
    \/ GetSecrets
    \/ InjectCredential
    \/ UpsertDaemonSet
    \/ GetDesiredVersion
    \/ ListPods
    \/ DeletePod
    \/ PollTick
    \/ UpdateStatus
    \/ Return
    \/ \E n \in Nodes : Schedule(n)
    \/ EditSpec

Spec == Init /\ [][Next]_vars

(***************************************************************************)
(* deletePods alone, entered with one doomed pod and a wait budget near    *)
(* the top of the uint16 range.                                            *)
(***************************************************************************)
WideBudgets == {65530, 65535}

InitWrap ==
    /\ \E w \in WideBudgets :
         cr = [Name |-> OneAgentName,
               Spec |-> UserSpec("secret", Val(<<TokenVar>>), w),
               Status |-> [Version |-> "1.2.0",
                           Items |-> Val("n1" :> [PodName |-> PodName("n1", 1),
                                                  Version |-> "1.1.0"])]]
    /\ daemonset = [exists |-> TRUE,
                    obj |-> applyOneAgentSettings(
                               applyOneAgentDefaults(getDaemonSet(cr), cr), cr)]
    /\ pods = [n \in Nodes |-> [alive |-> n = "n1", gen |-> IF n = "n1" THEN 1 ELSE 0]]
    /\ agentVer = [n \in Nodes |-> IF n = "n1" THEN "1.1.0" ELSE ""]
    /\ latest = "1.2.0"
    /\ pc = "delete"
    /\ oneagent = cr
    /\ updateStatus = FALSE
    /\ podsToDelete = <<Pod("n1", 1)>>
    /\ idx = 1
    /\ splay = 0
    /\ status = "nil"
    /\ result = "none"
    /\ passes = 1
    /\ h = [NoHistory(cr) EXCEPT
              !.listed = TRUE,
              !.listedPods = <<Pod("n1", 1)>>,
              !.answers = [NoAnswers EXCEPT !["n1"].ver = "1.1.0"]]

NextWrap == DeletePod \/ PollTick

SpecWrap == InitWrap /\ [][NextWrap]_vars

(***************************************************************************)
(* Passes without end in a cluster that works: the spec is not edited, the *)
(* recommended version stays, the control plane and the authority answer   *)
(* every call, deletes succeed, and the replacement of a deleted pod runs  *)
(* the recommended version and is found ready before the wait budget is    *)
(* used up.  The operator is triggered again whenever it is idle.          *)
(***************************************************************************)
\* the authority recommends a version that agents run
InitConv ==
    /\ Init
    /\ latest \in AgentVersions

ConvEvent ==
    /\ Receive(FALSE)
    /\ UNCHANGED passes

ConvGetSecrets == GetSecrets /\ pc' = "inject"

ConvUpsert == UpsertDaemonSet /\ pc' = "version"

ConvVersion == GetDesiredVersion /\ pc' = "list"

ConvList ==
    /\ ListPods
    /\ h'.listed
    /\ \A n \in Nodes : ~h'.answers[n].err

ConvDelete == DeletePod /\ h'.error = "none"

ConvPoll ==
    /\ PollTick
    /\ ~h'.timedOut
    /\ \A n \in Nodes : pods'[n] # pods[n] => agentVer'[n] = latest

ConvStatus == UpdateStatus /\ result' = "nil"

\* a node gets its first pod with an agent of any version; a later pod (the
\* replacement of a deleted one) runs the recommended version
ConvSchedule(n) ==
    /\ Schedule(n)
    /\ pods[n].gen > 0 => agentVer'[n] = latest

ConvPass ==
    \/ ConvEvent
    \/ ConvGetSecrets
    \/ InjectCredential
    \/ ConvUpsert
    \/ ConvVersion
    \/ ConvList
    \/ ConvDelete
    \/ ConvPoll
    \/ ConvStatus
    \/ Return

NextConv ==
    \/ ConvPass
    \/ \E n \in Nodes : ConvSchedule(n)

SpecConv == InitConv /\ [][NextConv]_vars /\ WF_vars(ConvPass)

(***************************************************************************)
(* Passes over a fleet without pods while the authority changes what it    *)
(* recommends: another version, or an empty answer.                        *)
(***************************************************************************)
Release ==
    /\ Between
    /\ \E v \in Versions \ {latest} : latest' = v
    /\ UNCHANGED <<cr, daemonset, pods, agentVer, pc, locals, result, passes, h>>

NextRelease ==
    \/ HandleEvent
    \/ GetSecrets
    \/ InjectCredential
    \/ UpsertDaemonSet
    \/ GetDesiredVersion
    \/ ListPods
    \/ UpdateStatus
    \/ Return
    \/ Release

SpecRelease == Init /\ [][NextRelease]_vars

(***************************************************************************)
(* Properties.                                                             *)
(***************************************************************************)
CeilDiv(a, b) == (a + b - 1) \div b

\* the pods listed in this pass whose version lookup failed
FailedLookups == {i \in DOMAIN h.listedPods : h.answers[h.listedPods[i].NodeName].err}

\* C1: in every run of deletePods the delete of candidate k+1 is issued only
\* after the poll for candidate k found exactly one ready replacement: the
\* deletes issued never exceed the candidates confirmed by more than one.
C1_DeleteAfterConfirmed ==
    h.delete <= h.confirmed + 1

\* C2: once a poll loop has used up its wait budget without a tick that found
\* exactly one ready replacement, deletePods and Handle return an error and
\* the pass is over: no later candidate is deleted.
C2_TimeoutReturnsError ==
    h.timedOut => (pc = "done" /\ result = "err")

\* C3: deletePods over N candidates with wait budget B and interval 10 runs
\* at most N deletions and at most N * ceil(B / 10) poll ticks: the poll loop
\* of each candidate runs at most ceil(B / 10) rounds.
C3_TicksBounded ==
    /\ h.delete <= Len(podsToDelete)
    /\ h.ticks <= CeilDiv(oneagent.Spec.WaitReadySeconds, splayTimeSeconds)

\* C4 as stated: a listed pod is in the retirement list if and only if its
\* lookup succeeded with a non-empty version that differs from the target.
C4_DoomedIffNonEmptyDiffers ==
    h.listed =>
      \A i \in DOMAIN h.listedPods :
        LET pod == h.listedPods[i]
            a == h.answers[pod.NodeName]
        IN  pod \in Range(podsToDelete)
              <=> (~a.err /\ a.ver # "" /\ a.ver # oneagent.Status.Version)

\* C4 (amended): a listed pod is in the retirement list if and only if its
\* lookup succeeded with a version, empty or not, that differs from the
\* target; a pod whose lookup failed is never in the list.
C4_DoomedIffDiffers ==
    h.listed =>
      /\ \A i \in DOMAIN h.listedPods :
           LET pod == h.listedPods[i]
               a == h.answers[pod.NodeName]
           IN  pod \in Range(podsToDelete)
                 <=> (~a.err /\ a.ver # oneagent.Status.Version)
      /\ Range(podsToDelete) \subseteq Range(h.listedPods)

C4_Witness ==
    /\ h.listed
    /\ \E i \in DOMAIN podsToDelete :
         /\ ~h.answers[podsToDelete[i].NodeName].err
         /\ h.answers[podsToDelete[i].NodeName].ver = ""
    /\ FailedLookups # {}

\* C5: on a live DaemonSet, hasSpecChanged is true exactly when node
\* selector, tolerations, image, environment or args of the DaemonSet differ
\* from the fleet spec, a nil field against a non-empty one included.
C5_DriftDetected ==
    (pc = "upsert" /\ daemonset.exists) =>
      (hasSpecChanged(daemonset.obj, oneagent)
         <=> ControlledDiffer(daemonset.obj, oneagent.Spec))

\* C6: a pass that starts with no drift, the credential entry first, the
\* tokens set, the target equal to the recommended version and every live
\* instance at the target and in the stored instance map makes no create,
\* update or delete and leaves the stored resource as it was.
C6_QuietPassWritesNothing ==
    (h.quiet /\ pc = "done") =>
      /\ h.create = 0 /\ h.update = 0 /\ h.delete = 0 /\ h.statusWrite = 0
      /\ cr = h.old

\* C7: for every listed pod whose version lookup failed, the new instance
\* record has the pod's name and the version of the previous record of the
\* node, or the empty version if there was none; and the failed lookup does
\* not end the pass with an error.
C7_FallbackVersion ==
    h.listed =>
      /\ \A i \in FailedLookups :
           LET pod == h.listedPods[i]
               prev == h.old.Status.Items.v
           IN  /\ pod.NodeName \in DOMAIN oneagent.Status.Items.v
               /\ oneagent.Status.Items.v[pod.NodeName] =
                    [PodName |-> pod.Name,
                     Version |-> IF pod.NodeName \in DOMAIN prev
                                 THEN prev[pod.NodeName].Version ELSE ""]
      /\ (FailedLookups # {} /\ h.delete = 0 /\ h.statusWrite = 0)
            => result # "err"

C7_Witness ==
    /\ h.listed
    /\ \E i \in FailedLookups :
         LET n == h.listedPods[i].NodeName IN
         /\ n \in DOMAIN h.old.Status.Items.v
         /\ h.old.Status.Items.v[n].Version # ""
         /\ oneagent.Status.Items.v[n].PodName # h.old.Status.Items.v[n].PodName
    /\ \E i \in FailedLookups :
         h.listedPods[i].NodeName \notin DOMAIN h.old.Status.Items.v

\* the environment lists of one to MaxEnv entries a user can write
EnvEntries == {EnvVar("A", ""), EnvVar(TOKEN, ""), TokenVar}

RECURSIVE EnvLists(_)
EnvLists(k) ==
    IF k = 0 THEN {<<>>}
    ELSE EnvLists(k - 1)
         \cup {Append(e, x) : e \in {l \in EnvLists(k - 1) : Len(l) = k - 1},
                              x \in EnvEntries}

\* the injection applied twice to the list e
InjectedTwice(e) ==
    LET once == InjectToken(e)
        twice == InjectToken(once.Env)
    IN  /\ twice.Env = once.Env
        /\ ~twice.updated
        /\ Len(twice.Env) <= Len(e) + 1
        /\ once.updated <=> e[1].Name # TOKEN

\* C8: the credential injection applied twice to a non-empty environment
\* list gives the list of one application, the second application does not
\* set the update flag, and the two applications add at most one entry: for
\* the list of the resource in every state, and where Handle is about to
\* inject for every list of up to MaxEnv entries.
C8_InjectionIdempotent ==
    /\ oneagent.Spec.Env.v # <<>> => InjectedTwice(oneagent.Spec.Env.v)
    /\ pc = "inject" => \A e \in EnvLists(MaxEnv) \ {<<>>} : InjectedTwice(e)

C8_Witness ==
    /\ pc = "upsert"
    /\ passes > 1
    /\ ~updateStatus
    /\ h.old.Spec.Env.v[1] = TokenVar
    /\ oneagent.Spec.Env = h.old.Spec.Env

\* C9: when the query for the recommended version fails, Handle returns no
\* error, the stored status.version keeps its value and no pod is deleted in
\* the pass.
C9_LatestFailureSwallowed ==
    h.latestFailed =>
      /\ pc = "done"
      /\ result = "nil"
      /\ cr.Status.Version = h.old.Status.Version
      /\ h.delete = 0

C9_Witness ==
    /\ h.latestFailed
    /\ pc = "done"
    /\ \E n \in Nodes : pods[n].alive /\ agentVer[n] # cr.Status.Version

\* C10 as stated: when the query for the recommended version fails, the pass
\* still lists the pods and writes the status if something changed in it.
C10_FailureStillPersists ==
    (h.latestFailed /\ pc = "done") =>
      /\ h.listed
      /\ updateStatus => h.statusWrite > 0

\* C10 (amended): when the query for the recommended version fails the pass
\* ends at once: the pods are not listed, the instance map is not rebuilt
\* and nothing is written, also when the tokens default or the credential
\* entry was set in this pass.
C10_FailureEndsPass ==
    h.latestFailed =>
      /\ ~h.listed
      /\ h.statusWrite = 0
      /\ oneagent.Status.Version = h.old.Status.Version
      /\ oneagent.Status.Items.v = h.old.Status.Items.v
      /\ cr = h.old

C10_Witness ==
    /\ h.latestFailed
    /\ pc = "done"
    /\ updateStatus
    /\ oneagent.Spec # cr.Spec

\* the scenario of C11: the target is 1.2.0 and the pass listed a pod on n1,
\* whose host runs 1.1.0, and a pod on n2, whose host runs 1.2.0
C11_Scenario ==
    /\ h.listed
    /\ oneagent.Status.Version = "1.2.0"
    /\ {h.listedPods[i].NodeName : i \in DOMAIN h.listedPods} = {"n1", "n2"}
    /\ h.answers["n1"] = [err |-> FALSE, ver |-> "1.1.0"]
    /\ h.answers["n2"] = [err |-> FALSE, ver |-> "1.2.0"]

\* the pass selects the pod on n1 and not the one on n2
C11_SelectsStaleOnly ==
    C11_Scenario =>
      /\ Len(podsToDelete) = 1
      /\ podsToDelete[1].NodeName = "n1"

\* C11: in the scenario the pass selects n1 and not n2, and when the
\* replacement on n1, running 1.2.0, was confirmed ready and the pass has
\* ended, the stored record of n1 has version 1.2.0 and that of n2 its pod
\* and version 1.2.0 as before.
C11_RetiredRecordUpdated ==
    C11_Scenario =>
      /\ Len(podsToDelete) = 1
      /\ podsToDelete[1].NodeName = "n1"
      /\ (h.confirmed = 1 /\ agentVer["n1"] = "1.2.0"
            /\ pc = "done" /\ result = "nil") =>
           /\ cr.Status.Items.v["n1"].Version = "1.2.0"
           /\ cr.Status.Items.v["n2"].Version = "1.2.0"

\* the nodes of the pods listed in this pass
ListedNodes == {h.listedPods[i].NodeName : i \in DOMAIN h.listedPods}

\* C12: once a pass has listed the pods, the keys of the instance map of its
\* resource are exactly the nodes of the listed pods, and after the pass has
\* written the status the stored instance map has exactly these keys.
C12_KeysAreListedNodes ==
    h.listed =>
      /\ DOMAIN oneagent.Status.Items.v = ListedNodes
      /\ (h.statusWrite > 0 /\ result = "nil") =>
            DOMAIN cr.Status.Items.v = ListedNodes

C12_Witness ==
    /\ h.statusWrite > 0
    /\ result = "nil"
    /\ ListedNodes # {}
    /\ \E n \in DOMAIN h.old.Status.Items.v : n \notin ListedNodes

\* C13: a step on an existing DaemonSet leaves it existing with the name,
\* the structural defaults and the owner references it had: the update path
\* of upsertDaemonSet writes the controlled fields only.
C13_DefaultsKeptOnUpdate ==
    [][daemonset.exists =>
         /\ daemonset'.exists
         /\ daemonset'.obj.Name = daemonset.obj.Name
         /\ daemonset'.obj.Structural = daemonset.obj.Structural
         /\ daemonset'.obj.OwnerReferences = daemonset.obj.OwnerReferences]_vars

C13_Witness ==
    /\ h.update = 1
    /\ h.error = "none"
    /\ daemonset.obj.Image = "img2"
    /\ daemonset.obj.Structural = "defaults"
    /\ daemonset.obj.OwnerReferences = <<OneAgentName>>

\* C14: a pass writes the resource at most once, the write is its last step
\* (no delete and no poll comes after it), and a pass that ends with the
\* error of a secret lookup, of the DaemonSet upsert, of the client, of the
\* pod listing, of a delete or of a wait has written nothing.
C14_StatusWrittenLast ==
    /\ h.statusWrite <= 1
    /\ h.statusWrite = 1 => pc = "done"
    /\ h.error \in {"secret", "upsert", "client", "list", "delete", "wait"} =>
         /\ pc = "done"
         /\ result = "err"
         /\ h.statusWrite = 0
         /\ cr = h.old

C14_Witness ==
    /\ h.statusWrite = 1
    /\ result = "nil"
    /\ h.delete = 2
    /\ h.confirmed = 2
    /\ cr # h.old

\* every live pod's host runs the target version of the stored status
AllAtTarget ==
    \A n \in Nodes : pods[n].alive => agentVer[n] = cr.Status.Version

\* C15: in a cluster that works and with passes triggered again and again,
\* from some point on every live pod runs the target version and no pass
\* deletes a pod.
C15_Converges ==
    <>[](AllAtTarget /\ h.delete = 0 /\ pc # "delete")

C15_Witness ==
    /\ pc = "idle"
    /\ AllAtTarget
    /\ cr.Status.Version = "1.2.0"
    /\ \A n \in Nodes : pods[n].alive /\ pods[n].gen = 2

C17_DeleteErrorEndsPass ==
    h.error = "delete" =>
      /\ pc = "done"
      /\ result = "err"
      /\ h.delete = idx
      /\ h.ticks = 0
      /\ h.confirmed < idx
      /\ h.statusWrite = 0
      /\ cr = h.old

C17_Witness ==
    /\ h.error = "delete"
    /\ idx = 1
    /\ Len(podsToDelete) = 2
    /\ updateStatus

\* C18: a round of the poll loop that does not confirm goes on to the next
\* round while budget remains, whether its query failed, found no pod, a pod
\* not ready or too many; the loop is left before the budget is used up only
\* by a round that finds exactly one ready pod, and that round ends the loop
\* without an error whatever the rounds before it left in status.
C18_PollGoesOn ==
    [][pc = "poll" =>
         LET wait == oneagent.Spec.WaitReadySeconds
             next == (splay + splayTimeSeconds) % Uint16
             confirms == h'.confirmed = h.confirmed + 1
         IN  /\ (next < wait /\ ~confirms) =>
                  /\ pc' = "poll"
                  /\ h'.ticks = h.ticks + 1
                  /\ splay' = next
                  /\ h'.error = "none"
             /\ confirms =>
                  /\ pc' \in {"delete", "status"}
                  /\ result' = "none"
                  /\ h'.error = "none"
                  /\ ~h'.timedOut <=> ~h.timedOut
             /\ pc' # "poll" => (confirms \/ ~(next < wait))]_vars

C18_Witness ==
    /\ h.recovered
    /\ pc = "status"
    /\ h.error = "none"
    /\ ~h.timedOut

\* the pass is past the credential injection
Injected == pc \in {"upsert", "version", "list", "delete", "poll", "status", "done"}
                /\ h.error # "secret"

\* the environment list that the injection is to leave, given the list before
EnsuredEnv(e) ==
    IF e # <<>> /\ e[1].Name = TOKEN THEN e ELSE <<TokenVar>> \o e

\* the injection of a list that has entries leaves the list it is to leave
C19_NonEmptyInjected ==
    (Injected /\ h.old.Spec.Env.v # <<>>) =>
       oneagent.Spec.Env.v = EnsuredEnv(h.old.Spec.Env.v)

\* C19: the credential injection of Handle completes for every environment
\* list, the empty one included, and leaves the reserved variable first,
\* followed by the entries the list had, in their order.
C19_InjectionTotal ==
    /\ pc # "panic"
    /\ Injected =>
         /\ oneagent.Spec.Env.v = EnsuredEnv(h.old.Spec.Env.v)
         /\ oneagent.Spec.Env.v[1].Name = TOKEN

\* C20: the stored target version changes only to the non-empty version a
\* successful query of this pass returned, and so never from a version to
\* the empty one; in a pass the target of the resource changes only at the
\* version query, to the non-empty answer, and an empty answer, a failed
\* query or a failed client leave it as it was.
C20_TargetOnlyFromAuthority ==
    [][/\ cr'.Status.Version # cr.Status.Version =>
            /\ cr'.Status.Version = latest
            /\ latest # ""
            /\ ~h.latestFailed
       /\ cr.Status.Version # "" => cr'.Status.Version # ""
       /\ (pc = "version" /\ oneagent'.Status.Version # oneagent.Status.Version) =>
            /\ oneagent'.Status.Version = latest
            /\ latest # ""
            /\ ~h'.latestFailed
            /\ h'.error = "none"
       /\ pc \in {"tokens", "inject", "upsert", "list", "delete", "poll", "status"} =>
            oneagent'.Status.Version = oneagent.Status.Version]_vars

C20_Witness ==
    /\ cr.Status.Version = "1.2.0"
    /\ latest = ""
    /\ h.listed
    /\ pc = "done"
    /\ result = "nil"

====
